---- MODULE Spec2Model ----
(***************************************************************************)
(* Model of src/src/pathfinder.c: the branch-and-bound depth-first search  *)
(* find_all_from_to / explore_neighbors / reached_destination / add_path   *)
(* and the enumeration find_all_from / execute_pathfinding that drives it. *)
(*                                                                         *)
(* The C recursion is an explicit stack of frames, the last element being  *)
(* the running call.  A frame holds the call's parameters (cords.from,     *)
(* cords.to), the locals of explore_neighbors (the loop index i and the    *)
(* edge weight read for it) and the position of the call.                  *)
(***************************************************************************)
EXTENDS Integers, Sequences, FiniteSets, TLC

\* ---------------------------------------------------------------- bounds
\* data->graph->size of the graphs explored.
size == 3
\* Edge weights are drawn from 0 .. MaxWeight.
MaxWeight == 1
\* The graphs explored have at most MaxEdges edges among the cells that are
\* drawn one by one (see IsSearchGraph and IsExecGraph).
MaxEdges == 3

\* ------------------------------------------------------------- constants
INT_MAX == 2147483647
\* The "no edge" marker of the adjacency matrix (pathfinder.h).
INIT == INT_MAX
\* A cell of the malloc'ed path buffer that was never written.
Unwritten == -1

Vertices == 0 .. (size - 1)
Weights  == 0 .. MaxWeight
Cells    == Vertices \X Vertices

VARIABLES
    matrix,      \* data->graph->matrix
    cords,       \* the cords of the outermost find_all_from_to call
    stack,       \* the active calls of find_all_from_to, outermost first
    visited,     \* path_info->visited
    path,        \* path_info->path
    path_index,  \* path_info->path_index
    weight,      \* path_info->weight
    paths,       \* all_paths->paths[0 .. count-1]
    count,       \* all_paths->count
    min_len,     \* all_paths->min_len
    pc,          \* where the program is outside the recursion
    alloc_errors,\* the number of "memory allocation failed" lines on stderr
    current,     \* execute_pathfinding: position of `current` in data->nodes
    copy,        \* find_all_from: position of `copy` in data->nodes
    searched     \* history: the cords of every outermost search started

vars == << matrix, cords, stack, visited, path, path_index, weight, paths,
           count, min_len, pc, alloc_errors, current, copy, searched >>

\* ------------------------------------------------------------ the graphs
\* The matrix whose cells in E hold the weights w, whose cells in B all hold
\* r, and whose other cells hold INIT.
Matrix(E, w, B, r) ==
    [ a \in Vertices |->
        [ b \in Vertices |->
            IF << a, b >> \in E THEN w[<< a, b >>]
            ELSE IF << a, b >> \in B THEN r
            ELSE INIT ] ]

\* The sets of at most MaxEdges cells among C.
EdgeSets(C) == { E \in SUBSET C : Cardinality(E) <= MaxEdges }

\* The cells of the edges a simple path from s to t can use.
ForwardCells(s, t) ==
    { c \in Cells : c[1] # c[2] /\ c[1] # t /\ c[2] # s }

\* The other cells: the self-loops, the edges into s and the edges out of t.
BackCells(s, t) == Cells \ ForwardCells(s, t)

\* The graphs one search from s to t is run on: any weights on at most
\* MaxEdges forward cells; the back cells are all absent or all present with
\* weight 0, so that self-loops and cycles through s and t are there for the
\* search to read.
IsSearchGraph(m, s, t) ==
    \E E \in EdgeSets(ForwardCells(s, t)) :
        \E w \in [ E -> Weights ] :
            \E r \in { 0, INIT } :
                m = Matrix(E, w, BackCells(s, t), r)

\* The graphs execute_pathfinding is run on: any weights on at most MaxEdges
\* cells of the matrix.
IsExecGraph(m) ==
    \E E \in EdgeSets(Cells) :
        \E w \in [ E -> Weights ] : m = Matrix(E, w, {}, INIT)

\* data->nodes: the listed vertices, node k of the list having id k-1.
nodes == [ k \in 1 .. size |-> k - 1 ]

\* --------------------------------------------------- create_path_info etc.
create_path_info ==
    [ visited    |-> [ v \in Vertices |-> 0 ],
      path       |-> [ k \in Vertices |-> Unwritten ],
      path_index |-> 0,
      weight     |-> 0 ]

\* create_paths with min_len started at 0 instead of INT_MAX.
create_paths_zero == [ paths |-> << >>, count |-> 0, min_len |-> 0 ]

create_paths == [ paths |-> << >>, count |-> 0, min_len |-> INT_MAX ]

\* A call find_all_from_to(cords, ...) about to run its first statement.  The
\* s_ fields are history: path_info as it is just before the call.
Call(from, to, v, p, k, w) ==
    [ from |-> from, to |-> to, i |-> 0, weight |-> 0, at |-> "enter",
      s_visited |-> v, s_path |-> p, s_index |-> k, s_weight |-> w,
      c_weight |-> 0 ]

Top == stack[Len(stack)]

SetTop(f) == [ stack EXCEPT ![Len(stack)] = f ]

Pop == SubSeq(stack, 1, Len(stack) - 1)

\* ------------------------------------------------------------- add_path
\* What the allocator answers to one call of add_path: both allocations
\* succeed, mx_realloc returns NULL, or mx_realloc succeeds and the malloc of
\* the vertices returns NULL.
Allocs == { "ok", "realloc_null", "malloc_null" }

\* The copy add_path makes of current_path[0 .. length-1].
CopyOf(current_path, length) ==
    [ vertices |-> [ k \in 1 .. length |-> current_path[k - 1] ],
      length   |-> length ]

\* add_path storing current_path itself instead of a copy: every entry
\* stored this way shows what the buffer holds at the latest call.
add_path_shared(all_paths, current_path, length, alloc) ==
    CASE alloc = "realloc_null" ->
            [ paths |-> all_paths.paths, count |-> all_paths.count,
              min_len |-> all_paths.min_len, errors |-> 1, crashed |-> FALSE ]
      [] alloc = "malloc_null" ->
            [ paths |-> all_paths.paths, count |-> all_paths.count,
              min_len |-> all_paths.min_len, errors |-> 0, crashed |-> TRUE ]
      [] OTHER ->
            [ paths |-> [ k \in 1 .. (all_paths.count + 1) |->
                            CopyOf(current_path, length) ],
              count |-> all_paths.count + 1,
              min_len |-> all_paths.min_len, errors |-> 0, crashed |-> FALSE ]

\* add_path putting the new path in front of the stored ones.
add_path_in_front(all_paths, current_path, length, alloc) ==
    CASE alloc = "realloc_null" ->
            [ paths |-> all_paths.paths, count |-> all_paths.count,
              min_len |-> all_paths.min_len, errors |-> 1, crashed |-> FALSE ]
      [] alloc = "malloc_null" ->
            [ paths |-> all_paths.paths, count |-> all_paths.count,
              min_len |-> all_paths.min_len, errors |-> 0, crashed |-> TRUE ]
      [] OTHER ->
            [ paths |-> << CopyOf(current_path, length) >> \o all_paths.paths,
              count |-> all_paths.count + 1,
              min_len |-> all_paths.min_len, errors |-> 0, crashed |-> FALSE ]

\* add_path on all_paths; `errors` counts the lines written to stderr and
\* `crashed` is the write through the NULL returned by malloc (line 85).
add_path(all_paths, current_path, length, alloc) ==
    CASE alloc = "realloc_null" ->
            [ paths |-> all_paths.paths, count |-> all_paths.count,
              min_len |-> all_paths.min_len, errors |-> 1, crashed |-> FALSE ]
      [] alloc = "malloc_null" ->
            [ paths |-> all_paths.paths, count |-> all_paths.count,
              min_len |-> all_paths.min_len, errors |-> 0, crashed |-> TRUE ]
      [] OTHER ->
            [ paths |-> Append(all_paths.paths, CopyOf(current_path, length)),
              count |-> all_paths.count + 1,
              min_len |-> all_paths.min_len, errors |-> 0, crashed |-> FALSE ]

\* --------------------------------------------------- reached_destination
\* reached_destination lowering min_len without freeing the stored paths.
DiscardKeepsPaths(all_paths, w) ==
    IF w < all_paths.min_len
    THEN [ paths |-> all_paths.paths, count |-> all_paths.count, min_len |-> w ]
    ELSE all_paths

\* reached_destination taking the number of vertices of the path for its
\* weight when it lowers min_len.
DiscardToLength(all_paths, w) ==
    IF w < all_paths.min_len
    THEN [ paths |-> << >>, count |-> 0, min_len |-> path_index ]
    ELSE all_paths

\* Lines 96-105: a strictly smaller weight frees every stored path.
Discard(all_paths, w) ==
    IF w < all_paths.min_len
    THEN [ paths |-> << >>, count |-> 0, min_len |-> w ]
    ELSE all_paths

\* Lines 95-110 on the current path_info.
reached_destination(all_paths, alloc) ==
    LET kept == Discard(all_paths, weight)
    IN  IF weight = kept.min_len
        THEN add_path(kept, path, path_index, alloc)
        ELSE [ paths |-> kept.paths, count |-> kept.count,
               min_len |-> kept.min_len, errors |-> 0, crashed |-> FALSE ]

AllPaths == [ paths |-> paths, count |-> count, min_len |-> min_len ]

\* The `if` of line 124 with `<` for `<=`: a tie is not explored.
ViableStrict(from, i) ==
    /\ matrix[from][i] # INIT
    /\ visited[i] = 0
    /\ weight + matrix[from][i] < min_len

\* The `if` of line 124 without the visited test.
ViableRevisit(from, i) ==
    /\ matrix[from][i] # INIT
    /\ weight + matrix[from][i] <= min_len

\* The `if` of line 124 without the bound on the weight.
ViableUnbounded(from, i) ==
    /\ matrix[from][i] # INIT
    /\ visited[i] = 0

\* The `if` of explore_neighbors (line 124) for neighbour i of `from`.
Viable(from, i) ==
    /\ matrix[from][i] # INIT
    /\ visited[i] = 0
    /\ weight + matrix[from][i] <= min_len

\* ------------------------------------------------------------ the search
\* find_all_from_to without line 143: the vertex is pushed, not marked.
FindAllFromToNoMark ==
    /\ pc = "search"
    /\ stack # << >>
    /\ Top.at = "enter"
    /\ path' = [ path EXCEPT ![path_index] = Top.from ]
    /\ path_index' = path_index + 1
    /\ stack' = SetTop([ Top EXCEPT !.at = IF Top.from = Top.to
                                           THEN "reached" ELSE "explore" ])
    /\ UNCHANGED << matrix, cords, visited, weight, paths, count, min_len, pc,
                    alloc_errors, current, copy, searched >>

\* find_all_from_to, lines 141-150: mark, push, and choose the branch.
FindAllFromTo ==
    /\ pc = "search"
    /\ stack # << >>
    /\ Top.at = "enter"
    /\ visited' = [ visited EXCEPT ![Top.from] = 1 ]
    /\ path' = [ path EXCEPT ![path_index] = Top.from ]
    /\ path_index' = path_index + 1
    /\ stack' = SetTop([ Top EXCEPT !.at = IF Top.from = Top.to
                                           THEN "reached" ELSE "explore" ])
    /\ UNCHANGED << matrix, cords, weight, paths, count, min_len, pc,
                    alloc_errors, current, copy, searched >>

\* reached_destination (with the add_path it calls), then back in
\* find_all_from_to before line 152.
ReachedDestination ==
    /\ pc = "search"
    /\ stack # << >>
    /\ Top.at = "reached"
    /\ \E alloc \in Allocs :
         LET r == reached_destination(AllPaths, alloc)
         IN  /\ paths' = r.paths
             /\ count' = r.count
             /\ min_len' = r.min_len
             /\ alloc_errors' = alloc_errors + r.errors
             /\ IF r.crashed
                THEN pc' = "crashed" /\ stack' = stack
                ELSE pc' = pc /\ stack' = SetTop([ Top EXCEPT !.at = "exit" ])
    /\ UNCHANGED << matrix, cords, visited, path, path_index, weight,
                    current, copy, searched >>

\* The neighbours from i on that the loop of line 122 would call for; the
\* turns of the loop for the others change nothing but i.
ViableFrom(from, i) == { j \in i .. (size - 1) : Viable(from, j) }

Least(S) == CHOOSE j \in S : \A k \in S : j <= k

\* explore_neighbors, the loop of line 122 from its current i up to the call
\* of line 127 for the next viable neighbour, or up to the end of the loop
\* and the return when there is none.
ExploreNeighbors ==
    /\ pc = "search"
    /\ stack # << >>
    /\ Top.at = "explore"
    /\ IF ViableFrom(Top.from, Top.i) # {}
       THEN LET i == Least(ViableFrom(Top.from, Top.i))
                w == matrix[Top.from][i]
            IN  /\ weight' = weight + w
                /\ stack' = Append(
                     SetTop([ Top EXCEPT !.i = i, !.weight = w,
                                         !.at = "called", !.c_weight = weight ]),
                     Call(i, Top.to, visited, path, path_index, weight + w))
       ELSE /\ weight' = weight
            /\ stack' = SetTop([ Top EXCEPT !.i = size, !.at = "exit" ])
    /\ UNCHANGED << matrix, cords, visited, path, path_index, paths, count,
                    min_len, pc, alloc_errors, current, copy, searched >>

\* explore_neighbors without line 128: the edge weight is not taken back.
ExploreReturnNoUndo ==
    /\ pc = "search"
    /\ stack # << >>
    /\ Top.at = "called"
    /\ stack' = SetTop([ Top EXCEPT !.i = Top.i + 1, !.at = "explore" ])
    /\ UNCHANGED << matrix, cords, visited, path, path_index, weight, paths,
                    count, min_len, pc, alloc_errors, current, copy, searched >>

\* explore_neighbors after the call of line 127 has returned: line 128, i++.
ExploreReturn ==
    /\ pc = "search"
    /\ stack # << >>
    /\ Top.at = "called"
    /\ weight' = weight - Top.weight
    /\ stack' = SetTop([ Top EXCEPT !.i = Top.i + 1, !.at = "explore" ])
    /\ UNCHANGED << matrix, cords, visited, path, path_index, paths, count,
                    min_len, pc, alloc_errors, current, copy, searched >>

\* find_all_from_to without line 153: the vertex stays marked.
FindAllFromToExitNoUnmark ==
    /\ pc = "search"
    /\ stack # << >>
    /\ Top.at = "exit"
    /\ path_index' = path_index - 1
    /\ stack' = Pop
    /\ pc' = IF Len(stack) = 1 THEN "returned" ELSE pc
    /\ UNCHANGED << matrix, cords, visited, path, weight, paths, count,
                    min_len, alloc_errors, current, copy, searched >>

\* find_all_from_to, lines 152-153, and the return to the caller.
FindAllFromToExit ==
    /\ pc = "search"
    /\ stack # << >>
    /\ Top.at = "exit"
    /\ path_index' = path_index - 1
    /\ visited' = [ visited EXCEPT ![Top.from] = 0 ]
    /\ stack' = Pop
    /\ pc' = IF Len(stack) = 1 THEN "returned" ELSE pc
    /\ UNCHANGED << matrix, cords, path, weight, paths, count, min_len,
                    alloc_errors, current, copy, searched >>

\* ------------------------------------------------- one search, any cords
\* find_all_from_to(cords, data, path_info, all_paths) called on a fresh
\* path_info and a fresh path list, for any graph and any cords.
Init ==
    /\ \E from \in Vertices, to \in Vertices :
         /\ cords = [ from |-> from, to |-> to ]
         /\ IsSearchGraph(matrix, from, to)
    /\ visited = create_path_info.visited
    /\ path = create_path_info.path
    /\ path_index = create_path_info.path_index
    /\ weight = create_path_info.weight
    /\ paths = create_paths.paths
    /\ count = create_paths.count
    /\ min_len = create_paths.min_len
    /\ stack = << Call(cords.from, cords.to, visited, path, path_index, weight) >>
    /\ pc = "search"
    /\ alloc_errors = 0
    /\ current = 0
    /\ copy = 0
    /\ searched = << cords >>

Next ==
    \/ FindAllFromTo
    \/ ReachedDestination
    \/ ExploreNeighbors
    \/ ExploreReturn
    \/ FindAllFromToExit

Spec == Init /\ [][Next]_vars

\* The search is ordinary sequential code: as long as a step of it is
\* possible, the next one is taken.
SpecLive == Init /\ [][Next]_vars /\ WF_vars(Next)

\* ------------------------------------------------- execute_pathfinding
\* execute_pathfinding, one turn of the loop of line 178.
ExecutePathfinding ==
    /\ pc = "exec"
    /\ IF current > Len(nodes)
       THEN pc' = "done" /\ copy' = copy
       ELSE pc' = "find_all_from" /\ copy' = current + 1
    /\ UNCHANGED << matrix, cords, stack, visited, path, path_index, weight,
                    paths, count, min_len, alloc_errors, current, searched >>

\* find_all_from, one turn of the loop of line 162 up to the call of line
\* 166.  The mallocs of create_path_info and create_paths are used unchecked:
\* a NULL among them is written through.
FindAllFrom ==
    /\ pc = "find_all_from"
    /\ IF copy > Len(nodes)
       THEN /\ pc' = "exec"
            /\ current' = current + 1
            /\ UNCHANGED << cords, stack, visited, path, path_index, weight,
                            paths, count, min_len, searched >>
       ELSE \E ok \in BOOLEAN :
              IF ok
              THEN /\ visited' = create_path_info.visited
                   /\ path' = create_path_info.path
                   /\ path_index' = create_path_info.path_index
                   /\ weight' = create_path_info.weight
                   /\ paths' = create_paths.paths
                   /\ count' = create_paths.count
                   /\ min_len' = create_paths.min_len
                   /\ cords' = [ from |-> nodes[current], to |-> nodes[copy] ]
                   /\ stack' = << Call(cords'.from, cords'.to, visited',
                                       path', path_index', weight') >>
                   /\ searched' = Append(searched, cords')
                   /\ pc' = "search"
                   /\ current' = current
              ELSE /\ pc' = "crashed"
                   /\ UNCHANGED << cords, stack, visited, path, path_index,
                                   weight, paths, count, min_len, searched,
                                   current >>
    /\ UNCHANGED << matrix, alloc_errors, copy >>

\* find_all_from, lines 167-169 and the step of the loop.
DisplayPaths ==
    /\ pc = "returned"
    /\ copy' = copy + 1
    /\ pc' = "find_all_from"
    /\ UNCHANGED << matrix, cords, stack, visited, path, path_index, weight,
                    paths, count, min_len, alloc_errors, current, searched >>

InitExec ==
    /\ IsExecGraph(matrix)
    /\ cords = [ from |-> nodes[1], to |-> nodes[1] ]
    /\ visited = create_path_info.visited
    /\ path = create_path_info.path
    /\ path_index = create_path_info.path_index
    /\ weight = create_path_info.weight
    /\ paths = create_paths.paths
    /\ count = create_paths.count
    /\ min_len = create_paths.min_len
    /\ stack = << >>
    /\ pc = "exec"
    /\ alloc_errors = 0
    /\ current = 1
    /\ copy = 0
    /\ searched = << >>

NextExec ==
    \/ ExecutePathfinding
    \/ FindAllFrom
    \/ DisplayPaths
    \/ FindAllFromTo
    \/ ReachedDestination
    \/ ExploreNeighbors
    \/ ExploreReturn
    \/ FindAllFromToExit

SpecExec == InitExec /\ [][NextExec]_vars

\* ======================================================== the properties
\* What the graph itself says, computed without the search.

\* The weight of the first k vertices of p: the sum of the edges between them.
RECURSIVE WeightUpTo(_, _)
WeightUpTo(p, k) ==
    IF k <= 1 THEN 0 ELSE matrix[p[k - 1]][p[k]] + WeightUpTo(p, k - 1)

\* The weight of the path p, a sequence of vertices.
PathWeight(p) == WeightUpTo(p, Len(p))

\* p followed by one more vertex, over an existing edge, not yet on p.
Extensions(p) ==
    { Append(p, v) : v \in { u \in Vertices :
                              /\ matrix[p[Len(p)]][u] # INIT
                              /\ \A k \in 1 .. Len(p) : p[k] # u } }

\* The sequences of at most n distinct vertices that start at s and follow
\* existing edges.
RECURSIVE SimpleFrom(_, _)
SimpleFrom(s, n) ==
    IF n <= 1
    THEN { << s >> }
    ELSE LET shorter == SimpleFrom(s, n - 1)
         IN  shorter \cup UNION { Extensions(p) : p \in shorter }

\* The simple paths from s to t.
SimplePaths(s, t) == { p \in SimpleFrom(s, size) : p[Len(p)] = t }

\* The simple paths from s to t of the least weight.
MinPaths(s, t) ==
    LET all == SimplePaths(s, t)
    IN  { p \in all : \A q \in all : PathWeight(p) <= PathWeight(q) }

StoredSet == { paths[k].vertices : k \in 1 .. Len(paths) }

\* C1: when find_all_from_to(start, target) returns on a fresh path_info and
\* a fresh path list and no allocation failed, the stored paths are exactly
\* the minimum-weight simple paths from start to target, each stored once.
C1_ExactlyTheMinimalPaths ==
    (pc = "returned" /\ alloc_errors = 0) =>
        /\ count = Len(paths)
        /\ StoredSet = MinPaths(cords.from, cords.to)
        /\ \A j, k \in 1 .. count :
             j # k => paths[j].vertices # paths[k].vertices

\* C1 witness: a search has returned two tied minimal paths.
C1_Witness ==
    /\ pc = "returned"
    /\ alloc_errors = 0
    /\ count = 2
    /\ Cardinality(MinPaths(cords.from, cords.to)) = 2

\* C2: in every state of a search every stored path weighs exactly min_len.
C2_StoredWeightIsMinLen ==
    /\ count = Len(paths)
    /\ \A k \in 1 .. Len(paths) : PathWeight(paths[k].vertices) = min_len

\* C2 witness: the search is running with a path stored after a heavier one
\* was found first and discarded.
C2_Witness ==
    /\ pc = "search"
    /\ count = 1
    /\ Len(paths[1].vertices) = 3
    /\ cords.to < paths[1].vertices[2]
    /\ matrix[cords.from][cords.to] # INIT
    /\ matrix[cords.from][cords.to] > min_len

\* C3: reaching the target with a weight strictly below min_len discards the
\* stored paths, sets min_len to that weight and leaves the new path as the
\* sole entry, count = 1.
C3_NewMinimumIsSoleEntry ==
    [][ (ReachedDestination /\ weight < min_len) =>
            /\ min_len' = weight
            /\ count' = 1
            /\ paths' = << CopyOf(path, path_index) >> ]_vars

\* C4: when no simple path from start to target exists, the returned
\* collection is empty and min_len is still INT_MAX.
C4_NoPathLeavesInfinity ==
    (pc = "returned" /\ SimplePaths(cords.from, cords.to) = {}) =>
        /\ count = 0
        /\ paths = << >>
        /\ min_len = INT_MAX

\* C4 witness: a search that left start, explored, and returned with nothing.
C4_Witness ==
    /\ pc = "returned"
    /\ SimplePaths(cords.from, cords.to) = {}
    /\ path[1] # Unwritten
    /\ count = 0
    /\ min_len = INT_MAX

\* C5: find_all_from_to with from = to = v returns exactly one stored path,
\* the single vertex v, with min_len = 0, having explored no neighbour.
C5_TrivialPath ==
    (pc = "returned" /\ cords.from = cords.to) =>
        /\ count = 1
        /\ paths = << [ vertices |-> << cords.from >>, length |-> 1 ] >>
        /\ min_len = 0
        /\ path[1] = Unwritten

\* C6: no stored path repeats a vertex; every stored path begins at start,
\* ends at target and follows existing edges.
C6_StoredPathsAreSimple ==
    \A k \in 1 .. Len(paths) :
        LET p == paths[k].vertices
        IN  /\ paths[k].length = Len(p)
            /\ Len(p) >= 1
            /\ p[1] = cords.from
            /\ p[Len(p)] = cords.to
            /\ Cardinality({ p[j] : j \in 1 .. Len(p) }) = Len(p)
            /\ \A j \in 1 .. (Len(p) - 1) : matrix[p[j]][p[j + 1]] # INIT

\* C6 witness: a path through a third vertex is stored in a graph that has a
\* self-loop on that vertex and an edge from it back to start.
C6_Witness ==
    /\ count >= 1
    /\ Len(paths[1].vertices) = 3
    /\ matrix[paths[1].vertices[2]][paths[1].vertices[2]] = 0
    /\ matrix[paths[1].vertices[2]][cords.from] = 0

\* C7: every call of find_all_from_to returns with visited, path_index and
\* path below path_index as they were just before the call, on both exits;
\* the caller's weight is restored after the call; and when the outermost
\* call returns no vertex is visited, path_index is 0 and weight is 0.
C7_CallRestoresPathInfo ==
    [][ /\ FindAllFromToExit =>
              /\ visited' = Top.s_visited
              /\ path_index' = Top.s_index
              /\ \A k \in 0 .. (Top.s_index - 1) : path'[k] = Top.s_path[k]
              /\ weight' = Top.s_weight
        /\ ExploreReturn => weight' = Top.c_weight
        /\ pc' = "returned" =>
              /\ \A v \in Vertices : visited'[v] = 0
              /\ path_index' = 0
              /\ weight' = 0 ]_vars

\* C7 witness: the outermost call has returned after calls that ended at the
\* target and calls that ended with their neighbours exhausted, three deep.
C7_Witness ==
    /\ pc = "returned"
    /\ cords.from # cords.to
    /\ count >= 1
    /\ path[2] # Unwritten
    /\ \A v \in Vertices : visited[v] = 0

\* C8: after an allocation failure in add_path the search does not carry on
\* and return a result set to its caller.
C8_AllocationFailureAborts ==
    pc = "returned" => alloc_errors = 0

\* C9: execute_pathfinding runs the search exactly once for every ordered
\* pair of distinct listed vertices, starts in list order and, for each
\* start, targets in list order.
AllCords ==
    [ n \in 1 .. (size * size) |->
        [ from |-> nodes[((n - 1) \div size) + 1],
          to   |-> nodes[((n - 1) % size) + 1] ] ]

IsOrderedPair(c) == c.from # c.to

C9_EveryOrderedPairSearched ==
    pc = "done" => searched = SelectSeq(AllCords, IsOrderedPair)

\* C10: visited[v] is non-zero exactly for the vertices v among
\* path[0 .. path_index-1], and those are pairwise distinct.
C10_VisitedIffOnPath ==
    /\ \A v \in Vertices :
         visited[v] # 0 <=> \E k \in 0 .. (path_index - 1) : path[k] = v
    /\ \A j, k \in 0 .. (path_index - 1) : j # k => path[j] # path[k]

\* C10 witness: the search is three vertices deep.
C10_Witness ==
    /\ pc = "search"
    /\ path_index = 3
    /\ \A v \in { path[0], path[1], path[2] } : visited[v] = 1


\* The vertices of path[0 .. path_index-1], as a sequence.
CurrentPath == [ k \in 1 .. path_index |-> path[k - 1] ]

\* C11: while find_all_from_to runs its body, after the push of line 144,
\* weight is the sum of the matrix weights of the consecutive edges of
\* path[0 .. path_index-1], at the call of reached_destination in particular;
\* around the call of line 127 it is that sum plus the edge being tried.
C11_WeightIsPathWeight ==
    (pc = "search" /\ stack # << >>) =>
        /\ Top.at \in { "reached", "explore", "exit" } =>
              weight = PathWeight(CurrentPath)
        /\ Top.at = "called" =>
              weight = PathWeight(CurrentPath) + Top.weight
        /\ (Top.at = "enter" /\ Len(stack) > 1) =>
              weight = PathWeight(CurrentPath) + stack[Len(stack) - 1].weight
        /\ (Top.at = "enter" /\ Len(stack) = 1) => weight = 0

\* C11 witness: reached_destination is about to run on a path of three
\* vertices of weight 2, after an earlier call was undone.
C11_Witness ==
    /\ pc = "search"
    /\ Top.at = "reached"
    /\ path_index = 3
    /\ weight = 2
    /\ stack[1].i > 1

\* C12: reached_destination is never entered with a weight above min_len.
C12_NeverWorseThanBest ==
    (pc = "search" /\ stack # << >> /\ Top.at = "reached") => weight <= min_len

\* C12 witness: the target is reached with a weight strictly below the
\* min_len of a path already stored.
C12_Witness ==
    /\ pc = "search"
    /\ Top.at = "reached"
    /\ count = 1
    /\ weight < min_len


\* C13: min_len never increases during a search, and it changes only in
\* reached_destination.
C13_MinLenOnlyDecreases ==
    [][ /\ min_len' <= min_len
        /\ min_len' # min_len => (stack # << >> /\ Top.at = "reached") ]_vars

\* C13 witness: min_len was lowered to the weight of a first path and then
\* lowered again.
C13_Witness ==
    /\ pc = "search"
    /\ count = 1
    /\ min_len = 0
    /\ Len(paths[1].vertices) = 3
    /\ cords.to < paths[1].vertices[2]
    /\ matrix[cords.from][cords.to] = 1

\* C14: a stored path keeps its vertices and its length through every later
\* step, the writes to the path buffer and the appends of ties included; it
\* goes away only when a strictly smaller weight discards the collection.
C14_StoredPathsAreCopies ==
    [][ \/ (stack # << >> /\ Top.at = "reached" /\ weight < min_len)
        \/ /\ Len(paths') >= Len(paths)
           /\ \A k \in 1 .. Len(paths) : paths'[k] = paths[k] ]_vars

\* C14 witness: a second path was appended to a stored one, and the path
\* buffer no longer holds the stored one.
C14_Witness ==
    /\ pc = "search"
    /\ count = 2
    /\ paths[1] # paths[2]
    /\ \E k \in 1 .. paths[1].length : path[k - 1] # paths[1].vertices[k]


\* C15: the recursion is at most size calls deep and path_index is at most
\* size, so that every write path[path_index++] of line 144 lands inside the
\* size cells of the path buffer.
C15_PathIndexWithinBuffer ==
    /\ Len(stack) <= size
    /\ path_index \in 0 .. size
    /\ (pc = "search" /\ stack # << >> /\ Top.at = "enter") =>
          path_index \in DOMAIN path

\* C15 witness: the last cell of the path buffer has been written and the
\* recursion is size calls deep.
C15_Witness ==
    /\ pc = "search"
    /\ Len(stack) = size
    /\ path_index = size
    /\ path[size - 1] # Unwritten

\* p comes before q in the lexicographic order of vertex sequences.
LexLess(p, q) ==
    \E k \in 1 .. Len(q) :
        /\ \A j \in 1 .. (k - 1) : j <= Len(p) /\ p[j] = q[j]
        /\ \/ k = Len(p) + 1
           \/ k <= Len(p) /\ p[k] < q[k]

\* C18: the stored paths are in strictly increasing lexicographic order of
\* their vertex sequences, in the final result as in every state before it.
C18_StoredInLexOrder ==
    \A j, k \in 1 .. Len(paths) :
        j < k => LexLess(paths[j].vertices, paths[k].vertices)

\* C18 witness: a search has returned two paths, the second found through a
\* neighbour of higher index than the first.
C18_Witness ==
    /\ pc = "returned"
    /\ count = 2
    /\ paths[1].vertices[2] < paths[2].vertices[2]


\* C16: for every graph and every cords the search terminates: every call
\* exhausts its neighbour loop and the outermost call returns, the recursion
\* unwound to depth zero.
C16_SearchTerminates ==
    <>(pc = "returned" /\ stack = << >>)

\* C17: the stored collection is empty exactly when min_len is still
\* INT_MAX, in every state, those after a failed allocation included.
C17_EmptyIffInfinity ==
    count = 0 <=> min_len = INT_MAX

====
